---- MODULE Spec2Model ----
(***************************************************************************)
(* Model of plantcv.parallel.parsers.ParseMatchArg: the tokenizer          *)
(* (_tokenize_match_arg) and the structural parser (_create_dictionary)    *)
(* of the filter-expression language "key:value,key:[v1,v2]".              *)
(*                                                                         *)
(* A Python string is modelled as a sequence of one-character strings,     *)
(* a Python list as a sequence, the insertion-ordered dict self.out as a   *)
(* sequence of records [key, values] with pairwise distinct keys.          *)
(* One action models one iteration of a for loop of the source, or the     *)
(* code that precedes or follows the loop.                                 *)
(*                                                                         *)
(* The module also models metadata_parser, the scan of a data directory    *)
(* that counts and collects the images to process (lines 8-225).           *)
(***************************************************************************)
EXTENDS Integers, Sequences, FiniteSets, TLC

VARIABLES
    match_string,        \* self.match_string
    pc,                  \* "init" | "tokenize" | "create_init" | "create" | "returned" | "raised"
    idx,                 \* local idx of _tokenize_match_arg (Unbound before the first iteration)
    escaped,             \* local escaped
    active_quotes,       \* local active_quotes
    current_item,        \* self.current_item
    tokens,              \* self.tokens
    specials,            \* self.specials
    indices,             \* self.indices
    mode,                \* local mode of _create_dictionary
    out,                 \* self.out
    current_key,         \* self.current_key (None or a token)
    current_value_list,  \* self.current_value_list
    consumed,            \* number of triples the zip iterator of _create_dictionary has yielded
    cd_idx,              \* local idx of _create_dictionary (Unbound before the first iteration)
    error,               \* the exception that left parse(), NoError while none did
    calls,               \* number of earlier calls of parse() on this expression
    first,               \* what the first call of parse() gave its caller
    held,                \* the dict the first call returned, as its caller sees it now
    aliased,             \* whether self.out is that very dict object
    has_csv,             \* metadata_parser: SnapshotInfo.csv exists in data_dir
    coprocess,           \* metadata_parser: argument coprocess (None or an imgtype)
    meta_filters,        \* metadata_parser: argument meta_filters
    listing,             \* metadata_parser: the files of data_dir, in scan order
    scanned,             \* metadata_parser: number of files the loops have visited
    meta,                \* metadata_parser: local meta
    jobcount,            \* metadata_parser: local jobcount
    mp_pc                \* metadata_parser: "idle" | "scan" | "returned"

vars == <<match_string, pc, idx, escaped, active_quotes, current_item, tokens,
          specials, indices, mode, out, current_key, current_value_list,
          consumed, cd_idx, error, calls, first, held, aliased,
          has_csv, coprocess, meta_filters, listing, scanned, meta, jobcount, mp_pc>>

tokvars == <<idx, escaped, active_quotes, current_item, tokens, specials, indices>>
cdvars  == <<mode, out, current_key, current_value_list, consumed, cd_idx>>
mpvars  == <<has_csv, coprocess, meta_filters, listing, scanned, meta, jobcount, mp_pc>>

\* What no statement of parse() assigns.
fixed == <<match_string, calls, first, mpvars>>

----------------------------------------------------------------------------
(* Bounds of the checked input space *)

MaxLen == 4
MaxWords == 4
MaxCalls == 2
MaxFiles == 3

----------------------------------------------------------------------------
(* Characters *)

BACKSLASH == "\\"
DQUOTE == "\""
SQUOTE == "'"

special_characters == {":", "[", "]", ","}
quote_symbols == <<SQUOTE, DQUOTE>>
QuoteSet == {quote_symbols[i] : i \in DOMAIN quote_symbols}

Alphabet == {"a", "b", ":", "[", "]", ",", BACKSLASH, SQUOTE, DQUOTE}

\* A local variable that no assignment has bound yet.
Unbound == -1

\* self.current_key = None
None == <<>>
Some(k) == <<k>>

NoError == [kind |-> "none", index |-> Unbound, line |-> 0]

\* What a call of parse() gives its caller: the returned dict or the exception.
Outcome == [pc |-> pc, out |-> out, error |-> error]
NoOutcome == [pc |-> "init", out |-> <<>>, error |-> NoError]

Modes == {"expecting_key", "expecting_colon", "expecting_value",
          "expecting_list_value", "expecting_list_comma", "expecting_key_comma"}

ShowSourceOfErrorKinds ==
    {"EmptyKeyError", "EmptyValueError", "UnexpectedSpecialCharacterError",
     "MissingColonError", "KeyValuePairInListError", "EmptyListError",
     "OnlyCommaValidError", "IncompleteKeyValuePairError"}

----------------------------------------------------------------------------
(* The expressions parse() is applied to *)

\* Every string over Alphabet of length at most n.
Strings(n) == UNION {[1..k -> Alphabet] : k \in 0..n}

Words == {<<"a">>, <<"b">>}

RECURSIVE JoinComma(_)
JoinComma(ws) ==
    IF Len(ws) = 0 THEN <<>>
    ELSE IF Len(ws) = 1 THEN ws[1]
    ELSE ws[1] \o <<",">> \o JoinComma(Tail(ws))

\* The bodies v1,...,vn of the lists of n words.
ListBodies(n) == {JoinComma(f) : f \in [1..n -> Words]}

\* The pairs written with exactly w words (the key and the values):
\* key:value, key:[v1,...,vn] with n >= 0, and key:[v1,...,vn,] with n >= 1.
PairForms(w) ==
    LET single == IF w = 2 THEN {k \o <<":">> \o v : k \in Words, v \in Words} ELSE {}
        list   == {k \o <<":", "[">> \o b \o <<"]">> : k \in Words, b \in ListBodies(w - 1)}
        dangle == IF w >= 2
                  THEN {k \o <<":", "[">> \o b \o <<",", "]">> :
                            k \in Words, b \in ListBodies(w - 1)}
                  ELSE {}
    IN  single \cup list \cup dangle

\* The comma-separated sequences of pairs written with exactly w words.
RECURSIVE PairExprs(_)
PairExprs(w) ==
    IF w = 0 THEN {}
    ELSE PairForms(w) \cup
         UNION {{p \o <<",">> \o e : p \in PairForms(s), e \in PairExprs(w - s)} :
                    s \in 1..(w - 1)}

Prefixes(S) == UNION {{SubSeq(e, 1, k) : k \in 0..Len(e)} : e \in S}

\* The expressions the specification and the docstrings name.
Examples ==
    { <<"a", ":", DQUOTE, "x", ",", "y", DQUOTE>>,
      <<"a", ":", "x", BACKSLASH, ",", "y">>,
      <<"a", ",", "b", ":", "1">>,
      <<"a", ":", "1", ",", "a", ":", "2">>,
      <<"a", ":", "[", "1", ",", "]">>,
      <<"a", ":", "1", ",", ",", "b", ":", "2">>,
      <<"i", "d", ":", "[", "1", "a", ",", "2", "a", "]">>,
      <<"c", "a", "m", "e", "r", "a", ":", "[", ":", "]">>,
      <<"c", "a", "m", "e", "r", "a", ":", "1", ",", "i", "d", ",", "3">>,
      <<"i", "d", ":", "[", "0", "0", "1", ",", "0", "0", "2", "]", ",",
        "c", "a", "m", "e", "r", "a", ":", "S", "V", ",",
        "t", "i", "m", "e", "s", "t", "a", "m", "p">> }

\* The expressions a:[ followed by at most n characters: what may follow a
\* list value that is a single character.
ListStarts(n) == {<<"a", ":", "[">> \o t : t \in Strings(n)}

InputsUpTo(n, w) ==
    Strings(n)
    \cup Prefixes(UNION {PairExprs(k) : k \in 1..w})
    \cup ListStarts(n - 2)
    \cup Examples

Inputs == InputsUpTo(MaxLen, MaxWords)

\* The expressions that are parsed more than once.
ShortInputs == InputsUpTo(MaxLen - 1, MaxWords - 1)

----------------------------------------------------------------------------
(* Initial state: ParseMatchArg(match_string) has been constructed          *)
(* (lines 341-349). The attributes and locals that parse() creates do not   *)
(* exist yet; they carry the values their first assignment gives them.      *)

NotCalled ==
    /\ pc = "init"
    /\ idx = Unbound
    /\ escaped = FALSE
    /\ active_quotes = <<>>
    /\ current_item = <<>>
    /\ tokens = <<>>
    /\ specials = <<>>
    /\ indices = <<>>
    /\ mode = "expecting_key"
    /\ out = <<>>
    /\ current_key = None
    /\ current_value_list = <<>>
    /\ consumed = 0
    /\ cd_idx = Unbound
    /\ error = NoError
    /\ calls = 0
    /\ first = NoOutcome
    /\ held = <<>>
    /\ aliased = FALSE

\* metadata_parser is not running.
NoScan ==
    /\ has_csv = FALSE
    /\ coprocess = None
    /\ meta_filters = <<>>
    /\ listing = <<>>
    /\ scanned = 0
    /\ meta = <<>>
    /\ jobcount = 0
    /\ mp_pc = "idle"

Init ==
    /\ match_string \in Inputs
    /\ NotCalled
    /\ NoScan

\* Mutant: the error is recorded and the scan goes on (no raise).
Raise_Continue(kind, i, line) ==
    /\ pc' = pc
    /\ error' = [kind |-> kind, index |-> i, line |-> line]

\* raise kind(i, self.match_string) at the given line of parsers.py
Raise(kind, i, line) ==
    /\ pc' = "raised"
    /\ error' = [kind |-> kind, index |-> i, line |-> line]

\* The caller of an earlier parse() holds a reference to the dict it got
\* (line 690 returns self.out itself): a statement that changes self.out in
\* place changes what that caller sees, until self.out is bound to a new dict.
Caller ==
    /\ held' = IF aliased THEN out' ELSE held
    /\ UNCHANGED aliased

----------------------------------------------------------------------------
(* _tokenize_match_arg *)

\* The token lists and the pending item, as _flush_current_item sees them.
TokState == [tokens |-> tokens, indices |-> indices, specials |-> specials,
             current_item |-> current_item]

\* _flush_current_item(special, idx)
FlushCurrentItem(st, special, i) ==
    IF st.current_item # <<>>
    THEN [tokens       |-> Append(st.tokens, st.current_item),
          indices      |-> Append(st.indices, i),
          specials     |-> Append(st.specials, special),
          current_item |-> <<>>]
    ELSE st

\* self.current_item += char
AddChar(st, char) == [st EXCEPT !.current_item = @ \o <<char>>]

\* Lines 418-420: flush the pending text, then the special character itself.
SpecialStep(st, char, i) ==
    FlushCurrentItem(AddChar(FlushCurrentItem(st, FALSE, i), char), TRUE, i)

SetTokState(st) ==
    /\ tokens' = st.tokens
    /\ indices' = st.indices
    /\ specials' = st.specials
    /\ current_item' = st.current_item

\* Mutant: the three token lists are not reset; a second call on the same
\* object appends to the tokens of the first.
TokenizeBegin_KeepTokens ==
    /\ pc = "init"
    /\ pc' = "tokenize"
    /\ tokens' = tokens
    /\ escaped' = FALSE
    /\ active_quotes' = <<>>
    /\ current_item' = <<>>
    /\ specials' = specials
    /\ indices' = indices
    /\ UNCHANGED <<fixed, idx, cdvars, error>>
    /\ Caller

\* parse() calls _tokenize_match_arg, which resets its state (lines 397-403).
TokenizeBegin ==
    /\ pc = "init"
    /\ pc' = "tokenize"
    /\ tokens' = <<>>
    /\ escaped' = FALSE
    /\ active_quotes' = <<>>
    /\ current_item' = <<>>
    /\ specials' = <<>>
    /\ indices' = <<>>
    /\ UNCHANGED <<fixed, idx, cdvars, error>>
    /\ Caller

\* Index (from 0) of the character that enumerate() yields next.
NextIdx == IF idx = Unbound THEN 0 ELSE idx + 1
HasNextChar == pc = "tokenize" /\ NextIdx < Len(match_string)
Char == match_string[NextIdx + 1]

\* active_quotes.index(char), from 0: the first occurrence.
QuoteIndex(aq, char) ==
    (CHOOSE i \in DOMAIN aq : aq[i] = char /\ \A j \in 1..(i - 1) : aq[j] # char) - 1

InSeq(x, s) == \E i \in DOMAIN s : s[i] = x

\* Mutant: the escape is honoured for plain characters only; an escaped
\* special character still splits the text.
TokEscaped_SpecialSplits ==
    /\ HasNextChar
    /\ escaped
    /\ idx' = NextIdx
    /\ IF Char \in special_characters
       THEN SetTokState(SpecialStep(TokState, Char, NextIdx))
       ELSE SetTokState(AddChar(TokState, Char))
    /\ escaped' = FALSE
    /\ UNCHANGED <<fixed, pc, active_quotes, cdvars, error>>
    /\ Caller

\* Lines 405-407: the character after a backslash.
TokEscaped ==
    /\ HasNextChar
    /\ escaped
    /\ idx' = NextIdx
    /\ SetTokState(AddChar(TokState, Char))
    /\ escaped' = FALSE
    /\ UNCHANGED <<fixed, pc, active_quotes, cdvars, error>>
    /\ Caller

\* Mutant: a closing quote symbol is never appended to the pending text.
TokQuoteClose_NeverAppends ==
    /\ HasNextChar
    /\ ~escaped
    /\ Char \in QuoteSet
    /\ InSeq(Char, active_quotes)
    /\ idx' = NextIdx
    /\ LET quote_index == QuoteIndex(active_quotes, Char)
       IN  /\ active_quotes' = SubSeq(active_quotes, 1, quote_index)
           /\ SetTokState(TokState)
    /\ UNCHANGED <<fixed, pc, escaped, cdvars, error>>
    /\ Caller

\* Lines 408-413: a quote symbol that is open.
TokQuoteClose ==
    /\ HasNextChar
    /\ ~escaped
    /\ Char \in QuoteSet
    /\ InSeq(Char, active_quotes)
    /\ idx' = NextIdx
    /\ LET quote_index == QuoteIndex(active_quotes, Char)
       IN  /\ active_quotes' = SubSeq(active_quotes, 1, quote_index)
           /\ IF quote_index # 0
              THEN SetTokState(AddChar(TokState, Char))
              ELSE SetTokState(TokState)
    /\ UNCHANGED <<fixed, pc, escaped, cdvars, error>>
    /\ Caller

\* Mutant: a quote symbol is pushed whether it is open or not.
TokQuoteOpen_Always ==
    /\ HasNextChar
    /\ ~escaped
    /\ Char \in QuoteSet
    /\ idx' = NextIdx
    /\ active_quotes' = Append(active_quotes, Char)
    /\ UNCHANGED <<fixed, pc, escaped, current_item, tokens, specials,
                   indices, cdvars, error>>
    /\ Caller

\* Lines 414-415: a quote symbol that is not open.
TokQuoteOpen ==
    /\ HasNextChar
    /\ ~escaped
    /\ Char \in QuoteSet
    /\ ~InSeq(Char, active_quotes)
    /\ idx' = NextIdx
    /\ active_quotes' = Append(active_quotes, Char)
    /\ UNCHANGED <<fixed, pc, escaped, current_item, tokens, specials,
                   indices, cdvars, error>>
    /\ Caller

\* Lines 416-420: a special character outside quotes.
TokSpecial ==
    /\ HasNextChar
    /\ ~escaped
    /\ Char \notin QuoteSet
    /\ Len(active_quotes) = 0
    /\ Char \in special_characters
    /\ idx' = NextIdx
    /\ SetTokState(SpecialStep(TokState, Char, NextIdx))
    /\ UNCHANGED <<fixed, pc, escaped, active_quotes, cdvars, error>>
    /\ Caller

\* Lines 421-422: a backslash outside quotes.
TokBackslash ==
    /\ HasNextChar
    /\ ~escaped
    /\ Char \notin QuoteSet
    /\ Len(active_quotes) = 0
    /\ Char \notin special_characters
    /\ Char = BACKSLASH
    /\ idx' = NextIdx
    /\ escaped' = TRUE
    /\ UNCHANGED <<fixed, pc, active_quotes, current_item, tokens, specials,
                   indices, cdvars, error>>
    /\ Caller

\* Lines 423-428: any other character outside quotes. The branch of
\* line 423 tests for a comma that line 417 has already taken.
TokPlain ==
    /\ HasNextChar
    /\ ~escaped
    /\ Char \notin QuoteSet
    /\ Len(active_quotes) = 0
    /\ Char \notin special_characters
    /\ Char # BACKSLASH
    /\ idx' = NextIdx
    /\ IF Char = ","
       THEN SetTokState(SpecialStep(TokState, Char, NextIdx))
       ELSE SetTokState(AddChar(TokState, Char))
    /\ UNCHANGED <<fixed, pc, escaped, active_quotes, cdvars, error>>
    /\ Caller

\* Mutant: a special character keeps its meaning inside quotes.
TokQuoted_SpecialSplits ==
    /\ HasNextChar
    /\ ~escaped
    /\ Char \notin QuoteSet
    /\ Len(active_quotes) # 0
    /\ idx' = NextIdx
    /\ IF Char \in special_characters
       THEN SetTokState(SpecialStep(TokState, Char, NextIdx))
       ELSE SetTokState(AddChar(TokState, Char))
    /\ UNCHANGED <<fixed, pc, escaped, active_quotes, cdvars, error>>
    /\ Caller

\* Lines 429-430: a character that is no quote symbol, inside quotes.
TokQuoted ==
    /\ HasNextChar
    /\ ~escaped
    /\ Char \notin QuoteSet
    /\ Len(active_quotes) # 0
    /\ idx' = NextIdx
    /\ SetTokState(AddChar(TokState, Char))
    /\ UNCHANGED <<fixed, pc, escaped, active_quotes, cdvars, error>>
    /\ Caller

\* Line 431, after the loop: the argument idx=idx is evaluated before the
\* call; over an empty string the loop never bound idx, and the read raises
\* UnboundLocalError. Otherwise _tokenize_match_arg returns to parse().
TokenizeEnd ==
    /\ pc = "tokenize"
    /\ ~(NextIdx < Len(match_string))
    /\ IF idx = Unbound
       THEN /\ Raise("UnboundLocalError", Unbound, 431)
            /\ UNCHANGED <<tokens, indices, specials, current_item>>
       ELSE /\ SetTokState(FlushCurrentItem(TokState, FALSE, idx))
            /\ pc' = "create_init"
            /\ UNCHANGED error
    /\ UNCHANGED <<fixed, idx, escaped, active_quotes, cdvars>>
    /\ Caller

----------------------------------------------------------------------------
(* _create_dictionary *)

\* The accumulator and the dictionary, as _flush_value and _flush_key_value see them.
CdState == [out |-> out, current_key |-> current_key,
            current_value_list |-> current_value_list]

SetCdState(st) ==
    /\ out' = st.out
    /\ current_key' = st.current_key
    /\ current_value_list' = st.current_value_list

\* key in self.out
HasKey(o, k) == \E i \in DOMAIN o : o[i].key = k

\* self.out[key]
Lookup(o, k) == o[CHOOSE i \in DOMAIN o : o[i].key = k].values

\* Mutant: a repeated key replaces its list (out[key] = vl for out[key].extend(vl)).
Extend_Replace(o, k, vl) ==
    [i \in DOMAIN o |-> IF o[i].key = k THEN [key |-> k, values |-> vl] ELSE o[i]]

\* self.out[key].extend(vl)
Extend(o, k, vl) ==
    [i \in DOMAIN o |-> IF o[i].key = k
                        THEN [key |-> k, values |-> o[i].values \o vl]
                        ELSE o[i]]

\* Mutant: the new key is bound to a fresh empty list instead of the pending one.
Insert_Empty(o, k, vl) == Append(o, [key |-> k, values |-> <<>>])

\* self.out[key] = vl, for a key that self.out does not hold
Insert(o, k, vl) == Append(o, [key |-> k, values |-> vl])

\* Mutant: the value is put in front of the list (insert(0, v) for append(v)).
FlushValue_Prepend(st, current_value) ==
    [st EXCEPT !.current_value_list = <<current_value>> \o @]

\* _flush_value(current_value)
FlushValue(st, current_value) ==
    [st EXCEPT !.current_value_list = Append(@, current_value)]

\* Mutant: the merge leaves the pending values in place (line 456 missing).
FlushKeyValue_KeepsValues(st) ==
    IF st.current_key # None
    THEN [out |-> IF HasKey(st.out, st.current_key[1])
                  THEN Extend(st.out, st.current_key[1], st.current_value_list)
                  ELSE Insert(st.out, st.current_key[1], st.current_value_list),
          current_value_list |-> st.current_value_list,
          current_key |-> None]
    ELSE st

\* _flush_key_value()
FlushKeyValue(st) ==
    IF st.current_key # None
    THEN [out |-> IF HasKey(st.out, st.current_key[1])
                  THEN Extend(st.out, st.current_key[1], st.current_value_list)
                  ELSE Insert(st.out, st.current_key[1], st.current_value_list),
          current_value_list |-> <<>>,
          current_key |-> None]
    ELSE st

\* Lines 610-614. self.current_value is assigned here and never used again.
\* Line 611 binds self.out to a new dict: the dict an earlier call returned
\* is no longer the one this object fills.
CreateBegin ==
    /\ pc = "create_init"
    /\ pc' = "create"
    /\ mode' = "expecting_key"
    /\ out' = <<>>
    /\ current_key' = None
    /\ current_value_list' = <<>>
    /\ aliased' = FALSE
    /\ UNCHANGED <<fixed, held, tokvars, consumed, cd_idx, error>>

\* The zip iterator of line 615 (the three lists have the same length).
HasNextToken == pc = "create" /\ consumed < Len(tokens)
token == tokens[consumed + 1]
special == specials[consumed + 1]
tokidx == indices[consumed + 1]

\* The loop header binds token, special and idx.
Bind ==
    /\ consumed' = consumed + 1
    /\ cd_idx' = tokidx

Stay == pc' = pc /\ error' = error

\* Mutant: a special token where a key is expected raises EmptyKeyError.
ExpectingKey_EmptyKey ==
    /\ HasNextToken
    /\ mode = "expecting_key"
    /\ Bind
    /\ IF special
       THEN /\ Raise("EmptyKeyError", tokidx, 621)
            /\ UNCHANGED <<mode, out, current_key, current_value_list>>
       ELSE /\ current_key' = Some(token)
            /\ mode' = "expecting_colon"
            /\ Stay
            /\ UNCHANGED <<out, current_value_list>>
    /\ UNCHANGED <<fixed, tokvars>>
    /\ Caller

\* Lines 618-625
ExpectingKey ==
    /\ HasNextToken
    /\ mode = "expecting_key"
    /\ Bind
    /\ IF special
       THEN /\ Raise("IncompleteKeyValuePairError", tokidx, 621)
            /\ UNCHANGED <<mode, out, current_key, current_value_list>>
       ELSE /\ current_key' = Some(token)
            /\ mode' = "expecting_colon"
            /\ Stay
            /\ UNCHANGED <<out, current_value_list>>
    /\ UNCHANGED <<fixed, tokvars>>
    /\ Caller

\* Mutant: the error points one past the offending token, as the
\* end-of-input errors do.
ExpectingColon_OffByOne ==
    /\ HasNextToken
    /\ mode = "expecting_colon"
    /\ Bind
    /\ IF special
       THEN IF token = <<":">> /\ special
            THEN /\ mode' = "expecting_value"
                 /\ Stay
            ELSE /\ Raise("MissingColonError", tokidx + 1, 631)
                 /\ UNCHANGED mode
       ELSE /\ Stay
            /\ UNCHANGED mode
    /\ UNCHANGED <<fixed, tokvars, out, current_key, current_value_list>>
    /\ Caller

\* Lines 626-632. A token that is not special matches no branch of the
\* chain (line 626 requires special) and is skipped.
ExpectingColon ==
    /\ HasNextToken
    /\ mode = "expecting_colon"
    /\ Bind
    /\ IF special
       THEN IF token = <<":">> /\ special
            THEN /\ mode' = "expecting_value"
                 /\ Stay
            ELSE /\ Raise("MissingColonError", tokidx, 631)
                 /\ UNCHANGED mode
       ELSE /\ Stay
            /\ UNCHANGED mode
    /\ UNCHANGED <<fixed, tokvars, out, current_key, current_value_list>>
    /\ Caller

\* Lines 633-643
ExpectingValue ==
    /\ HasNextToken
    /\ mode = "expecting_value"
    /\ Bind
    /\ IF special /\ token # <<"[">>
       THEN /\ Raise("UnexpectedSpecialCharacterError", tokidx, 636)
            /\ UNCHANGED <<mode, out, current_key, current_value_list>>
       ELSE IF token = <<"[">> /\ special
       THEN /\ mode' = "expecting_list_value"
            /\ Stay
            /\ UNCHANGED <<out, current_key, current_value_list>>
       ELSE /\ SetCdState(FlushKeyValue(FlushValue(CdState, token)))
            /\ mode' = "expecting_key_comma"
            /\ Stay
    /\ UNCHANGED <<fixed, tokvars>>
    /\ Caller

\* Mutant: a closing bracket where a value is expected always raises
\* EmptyListError, whatever the list holds.
ExpectingListValue_AlwaysEmptyList ==
    /\ HasNextToken
    /\ mode = "expecting_list_value"
    /\ Bind
    /\ IF token = <<":">> /\ special
       THEN /\ Raise("UnexpectedSpecialCharacterError", tokidx, 647)
            /\ UNCHANGED <<mode, out, current_key, current_value_list>>
       ELSE IF token = <<"]">> /\ special
       THEN /\ Raise("EmptyListError", tokidx, 652)
            /\ UNCHANGED <<mode, out, current_key, current_value_list>>
       ELSE /\ SetCdState(FlushValue(CdState, token))
            /\ mode' = "expecting_list_comma"
            /\ Stay
    /\ UNCHANGED <<fixed, tokvars>>
    /\ Caller

\* Mutant: a colon where a list value is expected raises the error that is
\* named after that case.
ExpectingListValue_KeyValuePairInList ==
    /\ HasNextToken
    /\ mode = "expecting_list_value"
    /\ Bind
    /\ IF token = <<":">> /\ special
       THEN /\ Raise("KeyValuePairInListError", tokidx, 647)
            /\ UNCHANGED <<mode, out, current_key, current_value_list>>
       ELSE IF token = <<"]">> /\ special
       THEN /\ IF Len(current_value_list) = 0
               THEN Raise("EmptyListError", tokidx, 652)
               ELSE Raise("EmptyValueError", tokidx, 656)
            /\ UNCHANGED <<mode, out, current_key, current_value_list>>
       ELSE /\ SetCdState(FlushValue(CdState, token))
            /\ mode' = "expecting_list_comma"
            /\ Stay
    /\ UNCHANGED <<fixed, tokvars>>
    /\ Caller

\* Lines 644-660
ExpectingListValue ==
    /\ HasNextToken
    /\ mode = "expecting_list_value"
    /\ Bind
    /\ IF token = <<":">> /\ special
       THEN /\ Raise("UnexpectedSpecialCharacterError", tokidx, 647)
            /\ UNCHANGED <<mode, out, current_key, current_value_list>>
       ELSE IF token = <<"]">> /\ special
       THEN /\ IF Len(current_value_list) = 0
               THEN Raise("EmptyListError", tokidx, 652)
               ELSE Raise("EmptyValueError", tokidx, 656)
            /\ UNCHANGED <<mode, out, current_key, current_value_list>>
       ELSE /\ SetCdState(FlushValue(CdState, token))
            /\ mode' = "expecting_list_comma"
            /\ Stay
    /\ UNCHANGED <<fixed, tokvars>>
    /\ Caller

\* Mutant: after a list value a token that is neither the comma nor the
\* closing bracket is skipped.
ExpectingListComma_SkipsOther ==
    /\ HasNextToken
    /\ mode = "expecting_list_comma"
    /\ Bind
    /\ IF token = <<"]">> /\ special
       THEN /\ SetCdState(FlushKeyValue(CdState))
            /\ mode' = "expecting_key_comma"
            /\ Stay
       ELSE IF token = <<",">> /\ special
       THEN /\ mode' = "expecting_list_value"
            /\ Stay
            /\ UNCHANGED <<out, current_key, current_value_list>>
       ELSE /\ Stay
            /\ UNCHANGED <<mode, out, current_key, current_value_list>>
    /\ UNCHANGED <<fixed, tokvars>>
    /\ Caller

\* Lines 661-670
ExpectingListComma ==
    /\ HasNextToken
    /\ mode = "expecting_list_comma"
    /\ Bind
    /\ IF token = <<"]">> /\ special
       THEN /\ SetCdState(FlushKeyValue(CdState))
            /\ mode' = "expecting_key_comma"
            /\ Stay
       ELSE IF token = <<",">> /\ special
       THEN /\ mode' = "expecting_list_value"
            /\ Stay
            /\ UNCHANGED <<out, current_key, current_value_list>>
       ELSE /\ Raise("OnlyCommaValidError", tokidx, 669)
            /\ UNCHANGED <<mode, out, current_key, current_value_list>>
    /\ UNCHANGED <<fixed, tokvars>>
    /\ Caller

\* Lines 671-676
ExpectingKeyComma ==
    /\ HasNextToken
    /\ mode = "expecting_key_comma"
    /\ Bind
    /\ IF ~(token = <<",">> /\ special)
       THEN /\ Raise("OnlyCommaValidError", tokidx, 674)
            /\ UNCHANGED mode
       ELSE /\ mode' = "expecting_key"
            /\ Stay
    /\ UNCHANGED <<fixed, tokvars, out, current_key, current_value_list>>
    /\ Caller

\* Mutant: the check of lines 685-688 is missing; a bare key at the end is
\* merged with an empty list.
EndOfInputError_DropsBareKey(m) ==
    CASE m = "expecting_value" -> "EmptyValueError"
      [] m = "expecting_key"   -> "EmptyKeyError"
      [] OTHER                 -> "none"

\* Mutant: a list that is still open when the tokens end is rejected.
EndOfInputError_RejectsOpenList(m) ==
    CASE m = "expecting_value" -> "EmptyValueError"
      [] m = "expecting_key"   -> "EmptyKeyError"
      [] m = "expecting_colon" -> "IncompleteKeyValuePairError"
      [] m \in {"expecting_list_value", "expecting_list_comma"} -> "EmptyValueError"
      [] OTHER                 -> "none"

\* The kind lines 677-688 raise when the tokens end in mode m, "none" if none.
EndOfInputError(m) ==
    CASE m = "expecting_value" -> "EmptyValueError"
      [] m = "expecting_key"   -> "EmptyKeyError"
      [] m = "expecting_colon" -> "IncompleteKeyValuePairError"
      [] OTHER                 -> "none"

\* The line of that raise.
EndOfInputLine(m) ==
    CASE m = "expecting_value" -> 679
      [] m = "expecting_key"   -> 683
      [] m = "expecting_colon" -> 687
      [] OTHER                 -> 0

\* Mutant: the end-of-input errors point at the last token (idx for idx + 1).
CreateEnd_AtLastToken ==
    /\ pc = "create"
    /\ ~(consumed < Len(tokens))
    /\ IF EndOfInputError(mode) # "none"
       THEN /\ IF cd_idx = Unbound
               THEN Raise("UnboundLocalError", Unbound, EndOfInputLine(mode))
               ELSE Raise(EndOfInputError(mode), cd_idx, EndOfInputLine(mode))
            /\ UNCHANGED <<out, current_key, current_value_list>>
       ELSE /\ SetCdState(FlushKeyValue(CdState))
            /\ pc' = "returned"
            /\ UNCHANGED error
    /\ UNCHANGED <<fixed, tokvars, mode, consumed, cd_idx>>
    /\ Caller

\* Lines 677-690, after the loop. The raises read idx + 1; when the loop
\* bound no idx (no token at all) that read raises UnboundLocalError.
CreateEnd ==
    /\ pc = "create"
    /\ ~(consumed < Len(tokens))
    /\ IF EndOfInputError(mode) # "none"
       THEN /\ IF cd_idx = Unbound
               THEN Raise("UnboundLocalError", Unbound, EndOfInputLine(mode))
               ELSE Raise(EndOfInputError(mode), cd_idx + 1, EndOfInputLine(mode))
            /\ UNCHANGED <<out, current_key, current_value_list>>
       ELSE /\ SetCdState(FlushKeyValue(CdState))
            /\ pc' = "returned"
            /\ UNCHANGED error
    /\ UNCHANGED <<fixed, tokvars, mode, consumed, cd_idx>>
    /\ Caller

----------------------------------------------------------------------------

Next ==
    \/ TokenizeBegin
    \/ TokEscaped
    \/ TokQuoteClose
    \/ TokQuoteOpen
    \/ TokSpecial
    \/ TokBackslash
    \/ TokPlain
    \/ TokQuoted
    \/ TokenizeEnd
    \/ CreateBegin
    \/ ExpectingKey
    \/ ExpectingColon
    \/ ExpectingValue
    \/ ExpectingListValue
    \/ ExpectingListComma
    \/ ExpectingKeyComma
    \/ CreateEnd

Spec == Init /\ [][Next]_vars

----------------------------------------------------------------------------
(* Parsing the same expression again *)

Finished == pc \in {"returned", "raised"}

\* The caller keeps what the first call gave it.
KeepFirst ==
    /\ calls' = calls + 1
    /\ first' = IF calls = 0 THEN Outcome ELSE first
    /\ held' = IF calls = 0 THEN out ELSE held

\* A new frame of parse(): the locals of the earlier call are gone, the
\* exception it raised has left it.
NewFrame ==
    /\ pc' = "init"
    /\ idx' = Unbound
    /\ escaped' = FALSE
    /\ active_quotes' = <<>>
    /\ mode' = "expecting_key"
    /\ consumed' = 0
    /\ cd_idx' = Unbound
    /\ error' = NoError

\* parse() is called again on the same object (lines 352-362): the
\* attributes still hold what the earlier call left in them.
ParseAgain ==
    /\ Finished
    /\ calls + 1 < MaxCalls
    /\ KeepFirst
    /\ aliased' = IF calls = 0 THEN pc = "returned" ELSE aliased
    /\ NewFrame
    /\ UNCHANGED <<match_string, current_item, tokens, specials, indices, out,
                   current_key, current_value_list, mpvars>>

\* ParseMatchArg(match_string).parse() on a new object (lines 341-362).
ParseFresh ==
    /\ Finished
    /\ calls + 1 < MaxCalls
    /\ KeepFirst
    /\ aliased' = FALSE
    /\ NewFrame
    /\ current_item' = <<>>
    /\ tokens' = <<>>
    /\ specials' = <<>>
    /\ indices' = <<>>
    /\ out' = <<>>
    /\ current_key' = None
    /\ current_value_list' = <<>>
    /\ UNCHANGED <<match_string, mpvars>>

InitAgain ==
    /\ match_string \in ShortInputs
    /\ NotCalled
    /\ NoScan

NextAgain ==
    \/ Next
    \/ ParseAgain
    \/ ParseFresh

SpecAgain == InitAgain /\ [][NextAgain]_vars

----------------------------------------------------------------------------
(* metadata_parser (lines 8-225) and _parse_filename (lines 264-287)       *)
(*                                                                         *)
(* The call that is modelled: delimiter "_", file_type "png", meta_fields  *)
(* {imgtype: 0, camera: 1}, valid_meta with the fields imgtype, camera and *)
(* treatment, no date range (start_date and end_date are None, so lines    *)
(* 134-137 and 215-218 do nothing), filters given as lists of accepted     *)
(* values. SnapshotInfo.csv has the columns id and tiles, none of them a   *)
(* field of valid_meta (lines 114-129 are not taken). A directory path is  *)
(* modelled by the number of the directory.                                *)

delimiter == "_"
file_type == <<"p", "n", "g">>
Dot == <<".">>

\* meta_fields, with the positions counted from 1
meta_fields == [imgtype |-> 1, camera |-> 2]
meta_count == 2

\* filename.split(delimiter), for a delimiter of one character (line 280)
RECURSIVE ParseFilename(_)
ParseFilename(filename) ==
    IF \E i \in DOMAIN filename : filename[i] = delimiter
    THEN LET i == CHOOSE k \in DOMAIN filename :
                      /\ filename[k] = delimiter
                      /\ \A j \in 1..(k - 1) : filename[j] # delimiter
         IN  <<SubSeq(filename, 1, i - 1)>>
                 \o ParseFilename(SubSeq(filename, i + 1, Len(filename)))
    ELSE <<filename>>

\* ext.search(filename) is not None (lines 180-181, 187)
IsImg(filename) ==
    /\ Len(filename) >= Len(Dot \o file_type)
    /\ SubSeq(filename, Len(filename) - Len(file_type), Len(filename)) = Dot \o file_type

\* ext.sub('', filename) on a filename that is an image (line 191)
Prefix(filename) == SubSeq(filename, 1, Len(filename) - Len(file_type) - 1)

\* Lines 97-132 and 200-213: the image passes when every filtered field
\* holds one of the accepted values.
ImgPass(metadata) ==
    \A field \in DOMAIN meta_filters :
        InSeq(metadata[meta_fields[field]], meta_filters[field])

\* Lines 94-132 and 197-213: the metadata of the image; treatment is the
\* field of valid_meta that the filename does not carry: it takes its default.
ImgMeta(dirpath, metadata) ==
    [path      |-> dirpath,
     imgtype   |-> metadata[meta_fields.imgtype],
     camera    |-> metadata[meta_fields.camera],
     treatment |-> "none",
     coimg     |-> None]

\* filename in meta
HasFile(d, filename) == \E i \in DOMAIN d : d[i].key = filename

\* meta[filename] = img_meta: a key that is present keeps its place and
\* gets the new value.
DictSet(d, filename, img_meta) ==
    IF HasFile(d, filename)
    THEN [i \in DOMAIN d |-> IF d[i].key = filename
                             THEN [key |-> filename, value |-> img_meta]
                             ELSE d[i]]
    ELSE Append(d, [key |-> filename, value |-> img_meta])

\* The file the loops visit next.
HasNextFile == mp_pc = "scan" /\ scanned < Len(listing)
File == listing[scanned + 1]

\* Line 75: the tiles of the row of SnapshotInfo.csv that names File.
Imgs == LET same == {i \in DOMAIN listing : listing[i].dir = File.dir}
            first_i == CHOOSE i \in same : \A j \in same : i <= j
        IN  [k \in 1..Cardinality(same) |-> listing[first_i + k - 1].name]

\* Lines 151-170, with camera in meta_fields and frame not: the tiles of
\* the row that are of the coprocessed type and of the same camera.
CoImgs(img_meta) ==
    {k \in DOMAIN Imgs :
        LET meta_parts == ParseFilename(Imgs[k])
        IN  /\ Len(Imgs[k]) # 0
            /\ Len(meta_parts) > 0
            /\ meta_parts[meta_fields.imgtype] = coprocess[1]
            /\ meta_parts[meta_fields.camera] = img_meta.camera}

\* The loop of line 151 keeps the last tile that matches.
WithCoImg(img_meta) ==
    IF coprocess # None /\ CoImgs(img_meta) # {}
    THEN LET k == CHOOSE i \in CoImgs(img_meta) : \A j \in CoImgs(img_meta) : j <= i
         IN  [img_meta EXCEPT !.coimg = Some(Imgs[k] \o Dot \o file_type)]
    ELSE img_meta

\* Lines 44-55
MetadataParserBegin ==
    /\ mp_pc = "called"
    /\ mp_pc' = "scan"
    /\ meta' = <<>>
    /\ jobcount' = 0
    /\ UNCHANGED <<has_csv, coprocess, meta_filters, listing, scanned>>
    /\ UNCHANGED <<match_string, pc, tokvars, cdvars, error, calls, first, held, aliased>>

\* Lines 77-177: one tile of a row of SnapshotInfo.csv.
ScanSnapshotImage ==
    /\ HasNextFile
    /\ has_csv
    /\ scanned' = scanned + 1
    /\ LET img == File.name
           dirpath == File.dir
           filename == img \o Dot \o file_type
           metadata == ParseFilename(img)
       IN  IF ~File.present
           THEN UNCHANGED <<meta, jobcount>>
           ELSE IF Len(metadata) = meta_count
           THEN LET img_meta == ImgMeta(dirpath, metadata)
                    img_pass == ImgPass(metadata)
                    coimg_store == coprocess # None /\ img_meta.imgtype = coprocess[1]
                IN  /\ jobcount' = IF img_pass THEN jobcount + 1 ELSE jobcount
                    /\ meta' = IF img_pass
                               THEN DictSet(meta, filename, WithCoImg(img_meta))
                               ELSE IF coimg_store
                               THEN DictSet(meta, filename, img_meta)
                               ELSE meta
           ELSE UNCHANGED <<meta, jobcount>>
    /\ UNCHANGED <<has_csv, coprocess, meta_filters, listing, mp_pc>>
    /\ UNCHANGED <<match_string, pc, tokvars, cdvars, error, calls, first, held, aliased>>

\* Lines 185-223: one file of the walk through data_dir.
ScanWalkFile ==
    /\ HasNextFile
    /\ ~has_csv
    /\ scanned' = scanned + 1
    /\ LET filename == File.name
           dirpath == File.dir
       IN  IF IsImg(filename) /\ Len(ParseFilename(Prefix(filename))) = meta_count
           THEN LET metadata == ParseFilename(Prefix(filename))
                    img_meta == ImgMeta(dirpath, metadata)
                IN  IF ImgPass(metadata)
                    THEN /\ meta' = DictSet(meta, filename, img_meta)
                         /\ jobcount' = jobcount + 1
                    ELSE UNCHANGED <<meta, jobcount>>
           ELSE UNCHANGED <<meta, jobcount>>
    /\ UNCHANGED <<has_csv, coprocess, meta_filters, listing, mp_pc>>
    /\ UNCHANGED <<match_string, pc, tokvars, cdvars, error, calls, first, held, aliased>>

\* Line 225: return jobcount, meta
MetadataParserReturn ==
    /\ mp_pc = "scan"
    /\ ~(scanned < Len(listing))
    /\ mp_pc' = "returned"
    /\ UNCHANGED <<has_csv, coprocess, meta_filters, listing, scanned, meta, jobcount>>
    /\ UNCHANGED <<match_string, pc, tokvars, cdvars, error, calls, first, held, aliased>>

(* The data directories that are scanned *)

Dirs == {1, 2}

\* Names of images without their extension: type and camera, and one name
\* of another structure.
Stems == {<<"V", "_", "1">>, <<"N", "_", "1">>, <<"N", "_", "2">>, <<"V">>}

\* What os.walk finds: image files, and a file that is no image.
WalkFiles ==
    {[dir |-> d, name |-> s \o Dot \o file_type, present |-> TRUE] : d \in Dirs, s \in Stems}
    \cup {[dir |-> d, name |-> <<"V", "_", "1", ".", "t", "x", "t">>, present |-> TRUE] : d \in Dirs}

\* What SnapshotInfo.csv lists: the tiles of each snapshot, and whether the
\* file of the tile exists (line 81).
SnapshotTiles ==
    {[dir |-> d, name |-> s, present |-> p] : d \in Dirs, s \in Stems, p \in BOOLEAN}

\* Directory by directory, no file twice.
Listings(files) ==
    {l \in UNION {[1..n -> files] : n \in 0..MaxFiles} :
        /\ \A i, j \in DOMAIN l : i < j => l[i].dir <= l[j].dir
        /\ \A i, j \in DOMAIN l :
               (i # j) => (l[i].dir # l[j].dir \/ l[i].name # l[j].name)}

Filters == {<<>>, [imgtype |-> << <<"V">> >>]}

InitScan ==
    /\ match_string = <<>>
    /\ NotCalled
    /\ has_csv \in BOOLEAN
    /\ coprocess \in {None, Some(<<"N">>)}
    /\ meta_filters \in Filters
    /\ listing \in Listings(IF has_csv THEN SnapshotTiles ELSE WalkFiles)
    /\ scanned = 0
    /\ meta = <<>>
    /\ jobcount = 0
    /\ mp_pc = "called"

NextScan ==
    \/ MetadataParserBegin
    \/ ScanSnapshotImage
    \/ ScanWalkFile
    \/ MetadataParserReturn

SpecScan == InitScan /\ [][NextScan]_vars

TypeOK ==
    /\ pc \in {"init", "tokenize", "create_init", "create", "returned", "raised"}
    /\ mode \in Modes
    /\ escaped \in BOOLEAN
    /\ Len(tokens) = Len(specials) /\ Len(tokens) = Len(indices)
    /\ error.kind \in ShowSourceOfErrorKinds \cup {"none", "UnboundLocalError"}

----------------------------------------------------------------------------
(* Reading an expression as text, independently of the tokenizer and the   *)
(* parser: what the grammar key:value,key:[v1,...,vn] says it means.       *)


\* Neither special, nor a quote symbol, nor the backslash.
Ordinary(c) == c \notin special_characters \cup QuoteSet \cup {BACKSLASH}

\* A non-empty run of ordinary characters.
IsWord(s) == s # <<>> /\ \A i \in DOMAIN s : Ordinary(s[i])

\* Position of the first c in s, 0 if there is none.
FirstPos(s, c) ==
    IF \E i \in DOMAIN s : s[i] = c
    THEN CHOOSE i \in DOMAIN s : s[i] = c /\ \A j \in 1..(i - 1) : s[j] # c
    ELSE 0

From(s, i) == SubSeq(s, i, Len(s))

\* The pieces of s between its occurrences of c.
RECURSIVE SplitOn(_, _)
SplitOn(s, c) ==
    IF FirstPos(s, c) = 0 THEN <<s>>
    ELSE <<SubSeq(s, 1, FirstPos(s, c) - 1)>> \o SplitOn(From(s, FirstPos(s, c) + 1), c)

AllWords(ws) == \A i \in DOMAIN ws : IsWord(ws[i])

\* The one-entry map {k: vl}.
OneEntry(k, vl) == <<[key |-> k, values |-> vl]>>

\* C1: every expression key:value with ordinary, non-empty key and value
\* parses to exactly the one-entry map {key: [value]}.
C1_KeyValue ==
    \A i \in DOMAIN match_string :
        (/\ Finished
         /\ match_string[i] = ":"
         /\ IsWord(SubSeq(match_string, 1, i - 1))
         /\ IsWord(From(match_string, i + 1)))
        => /\ pc = "returned"
           /\ out = OneEntry(SubSeq(match_string, 1, i - 1), <<From(match_string, i + 1)>>)

\* parse() has returned on an expression key:value whose key has two characters.
C1_Witness ==
    /\ pc = "returned"
    /\ Len(match_string) = 4
    /\ match_string[3] = ":"
    /\ IsWord(SubSeq(match_string, 1, 2))
    /\ IsWord(From(match_string, 4))

\* key:[body]: the position of the colon, 0 if the expression has not that shape.
ListColon(s) ==
    LET i == FirstPos(s, ":")
    IN  IF /\ i > 1
           /\ Len(s) >= i + 2
           /\ s[i + 1] = "["
           /\ s[Len(s)] = "]"
           /\ IsWord(SubSeq(s, 1, i - 1))
        THEN i ELSE 0

ListKey(s) == SubSeq(s, 1, ListColon(s) - 1)
ListBody(s) == SubSeq(s, ListColon(s) + 2, Len(s) - 1)

\* C2: key:[v1,...,vn] with n >= 1 and ordinary, non-empty key and values
\* parses to {key: [v1,...,vn]}, the values in listed order; key:[] raises
\* EmptyListError.
C2_List ==
    (Finished /\ ListColon(match_string) # 0)
    => /\ AllWords(SplitOn(ListBody(match_string), ","))
          => /\ pc = "returned"
             /\ out = OneEntry(ListKey(match_string), SplitOn(ListBody(match_string), ","))
       /\ ListBody(match_string) = <<>>
          => /\ pc = "raised"
             /\ error.kind = "EmptyListError"

\* parse() has returned on a list of two different values.
C2_Witness ==
    /\ pc = "returned"
    /\ ListColon(match_string) # 0
    /\ AllWords(SplitOn(ListBody(match_string), ","))
    /\ Len(SplitOn(ListBody(match_string), ",")) >= 2
    /\ SplitOn(ListBody(match_string), ",")[1] # SplitOn(ListBody(match_string), ",")[2]

\* The pairs of an expression of the grammar
\*     pair ("," pair)*,  pair = word ":" word | word ":[" word ("," word)* "]"
\* read off the text: [ok |-> TRUE, pairs |-> the (key, values) of each pair
\* in order], or ok = FALSE if the text is not of that grammar.
NotGrammar == [ok |-> FALSE, pairs |-> <<>>]

RECURSIVE RefParse(_)
RefRest(key, vals, after) ==
    IF after = <<>>
    THEN [ok |-> TRUE, pairs |-> <<[key |-> key, values |-> vals]>>]
    ELSE IF after[1] # ","
    THEN NotGrammar
    ELSE LET r == RefParse(Tail(after))
         IN  IF r.ok
             THEN [ok |-> TRUE, pairs |-> <<[key |-> key, values |-> vals]>> \o r.pairs]
             ELSE NotGrammar

RefParse(s) ==
    LET i == FirstPos(s, ":")
    IN  IF i <= 1 \/ i = Len(s) \/ ~IsWord(SubSeq(s, 1, i - 1))
        THEN NotGrammar
        ELSE LET key  == SubSeq(s, 1, i - 1)
                 rest == From(s, i + 1)
                 j    == FirstPos(rest, "]")
                 c    == FirstPos(rest, ",")
                 val  == IF c = 0 THEN rest ELSE SubSeq(rest, 1, c - 1)
             IN  IF rest[1] = "["
                 THEN IF j = 0 \/ ~AllWords(SplitOn(SubSeq(rest, 2, j - 1), ","))
                      THEN NotGrammar
                      ELSE RefRest(key, SplitOn(SubSeq(rest, 2, j - 1), ","),
                                   From(rest, j + 1))
                 ELSE IF ~IsWord(val)
                      THEN NotGrammar
                      ELSE RefRest(key, <<val>>, IF c = 0 THEN <<>> ELSE From(rest, c))

\* The keys of the pairs, each once, in order of first occurrence.
RECURSIVE FirstKeys(_)
FirstKeys(pairs) ==
    IF pairs = <<>> THEN <<>>
    ELSE LET before == FirstKeys(SubSeq(pairs, 1, Len(pairs) - 1))
             k      == pairs[Len(pairs)].key
         IN  IF InSeq(k, before) THEN before ELSE Append(before, k)

\* The values of the occurrences of key k, concatenated in encounter order.
RECURSIVE ValuesOf(_, _)
ValuesOf(pairs, k) ==
    IF pairs = <<>> THEN <<>>
    ELSE (IF pairs[1].key = k THEN pairs[1].values ELSE <<>>) \o ValuesOf(Tail(pairs), k)

Merged(pairs) ==
    [i \in 1..Len(FirstKeys(pairs)) |->
        [key |-> FirstKeys(pairs)[i], values |-> ValuesOf(pairs, FirstKeys(pairs)[i])]]

IsPrefix(s, t) == Len(s) <= Len(t) /\ SubSeq(t, 1, Len(s)) = s

\* The map returned for an expression of the grammar is the merge of its pairs.
MergedResult ==
    (pc = "returned" /\ RefParse(match_string).ok)
    => out = Merged(RefParse(match_string).pairs)

\* A step changes self.out only by adding one new key after the others or by
\* appending to the list of one key; no entry is replaced, shortened or moved.
MergeStep ==
    \/ out' = out
    \/ /\ Len(out') = Len(out) + 1
       /\ SubSeq(out', 1, Len(out)) = out
       /\ ~HasKey(out, out'[Len(out')].key)
    \/ /\ Len(out') = Len(out)
       /\ \E i \in DOMAIN out :
            /\ out'[i].key = out[i].key
            /\ IsPrefix(out[i].values, out'[i].values)
            /\ \A j \in DOMAIN out : j # i => out'[j] = out[j]

\* C3 (merge rule): the map returned for an expression has one entry per key,
\* in order of first occurrence, whose list is the concatenation, in encounter
\* order, of the values of every occurrence of the key; on every input a
\* later occurrence appends to the stored list and never replaces it.
C3_Merge == []MergedResult /\ [][MergeStep]_vars

\* parse() has returned one entry that merges two occurrences of the same key.
C3_Witness ==
    /\ pc = "returned"
    /\ RefParse(match_string).ok
    /\ Len(RefParse(match_string).pairs) = 2
    /\ RefParse(match_string).pairs[1].values # RefParse(match_string).pairs[2].values
    /\ Len(out) = 1

\* C4: every map parse() returns binds each of its keys to a non-empty list.
C4_NonEmptyLists ==
    pc = "returned" => \A i \in DOMAIN out : out[i].values # <<>>

\* C5: an expression that yields no token at all, the empty string in
\* particular, is a success: parse() returns the empty map and raises nothing.
C5_EmptyExpression ==
    (Finished /\ tokens = <<>>) => (pc = "returned" /\ out = <<>>)

\* C6: tokenization never fails: no exception leaves parse() from a line of
\* _tokenize_match_arg (lines 384-431), whatever the input.
C6_TokenizerNeverRaises ==
    pc = "raised" => error.line \notin 384..431

\* C7: every token, plain or special, is tagged with the index of its first
\* character: the expression has the token's first character at that index.
C7_TaggedAtFirstChar ==
    \A k \in DOMAIN tokens :
        /\ indices[k] \in 0..(Len(match_string) - 1)
        /\ match_string[indices[k] + 1] = tokens[k][1]

\* Inside quotes a character that is no quote symbol is appended to the
\* pending text; it emits no token and sets no escape.
QuotedStep ==
    (HasNextChar /\ active_quotes # <<>> /\ Char \notin QuoteSet)
    => /\ current_item' = Append(current_item, Char)
       /\ tokens' = tokens
       /\ specials' = specials
       /\ indices' = indices
       /\ escaped' = FALSE
       /\ active_quotes' = active_quotes

QuotedExample ==
    (Finished /\ match_string = <<"a", ":", DQUOTE, "x", ",", "y", DQUOTE>>)
    => /\ pc = "returned"
       /\ out = OneEntry(<<"a">>, << <<"x", ",", "y">> >>)

\* C8 (quoting): while a quote level is open every character that is no
\* quote symbol (comma, colon, bracket and backslash included) is appended
\* literally, with no token and no escape; a:"x,y" parses to {a: ["x,y"]}.
C8_Quoting == []QuotedExample /\ [][QuotedStep]_vars

\* parse() has returned on a:"x,y".
C8_Witness ==
    /\ pc = "returned"
    /\ match_string = <<"a", ":", DQUOTE, "x", ",", "y", DQUOTE>>
    /\ tokens[Len(tokens)] = <<"x", ",", "y">>

\* A backslash read outside quotes (and not itself escaped) is dropped and
\* sets the escape flag.
BackslashStep ==
    (HasNextChar /\ ~escaped /\ active_quotes = <<>> /\ Char = BACKSLASH)
    => /\ escaped' = TRUE
       /\ current_item' = current_item
       /\ tokens' = tokens
       /\ specials' = specials
       /\ indices' = indices
       /\ active_quotes' = active_quotes

\* The character after it is appended verbatim, whatever it is, and the flag
\* is cleared.
EscapedStep ==
    (HasNextChar /\ escaped)
    => /\ current_item' = Append(current_item, Char)
       /\ escaped' = FALSE
       /\ active_quotes' = <<>>
       /\ tokens' = tokens
       /\ specials' = specials
       /\ indices' = indices

EscapeExample ==
    (Finished /\ match_string = <<"a", ":", "x", BACKSLASH, ",", "y">>)
    => /\ pc = "returned"
       /\ out = OneEntry(<<"a">>, << <<"x", ",", "y">> >>)

\* C9 (escaping): a backslash outside quotes is not emitted and makes the
\* next character be appended verbatim, a quote symbol or a special character
\* too, after which the flag is cleared; a:x\,y parses to {a: ["x,y"]}.
C9_Escaping == []EscapeExample /\ [][BackslashStep /\ EscapedStep]_vars

\* parse() has returned on a:x\,y.
C9_Witness ==
    /\ pc = "returned"
    /\ match_string = <<"a", ":", "x", BACKSLASH, ",", "y">>
    /\ tokens[Len(tokens)] = <<"x", ",", "y">>

\* In expecting_colon a token other than the special ":" raises
\* MissingColonError at the position of that token in the expression.
MissingColonStep ==
    (HasNextToken /\ mode = "expecting_colon" /\ ~(special /\ token = <<":">>))
    => /\ pc' = "raised"
       /\ error'.kind = "MissingColonError"
       /\ error'.index = tokidx
       /\ error'.index \in 0..(Len(match_string) - 1)
       /\ <<match_string[error'.index + 1]>> = token

\* Read off the text: a first key followed by a special character other than
\* the colon.
MissingColonText ==
    \A i \in DOMAIN match_string :
        (/\ Finished
         /\ IsWord(SubSeq(match_string, 1, i - 1))
         /\ match_string[i] \in special_characters \ {":"})
        => /\ pc = "raised"
           /\ error.kind = "MissingColonError"
           /\ error.index = i - 1

\* C10 (missing colon): a key followed by a token other than the special ":"
\* raises MissingColonError carrying the offset of that token; a,b:1 raises
\* it at the offset of the comma.
C10_MissingColon == []MissingColonText /\ [][MissingColonStep]_vars

\* parse() has raised MissingColonError at the comma of a,b:1.
C10_Witness ==
    /\ pc = "raised"
    /\ match_string = <<"a", ",", "b", ":", "1">>
    /\ error.kind = "MissingColonError"
    /\ error.index = 1


\* The zip iterator of _create_dictionary is exhausted.
AtEndOfTokens == pc = "create" /\ ~HasNextToken

\* C11 as stated: when the tokens end in expecting_value, parse() raises
\* EmptyValueError whose offset equals the length of the expression.
C11_OffsetIsLength ==
    (pc = "raised" /\ error.line = 679)
    => /\ error.kind = "EmptyValueError"
       /\ error.index = Len(match_string)

\* When the tokens end in expecting_value the last token is the special ":",
\* and EmptyValueError is raised one past the position of that colon.
UnterminatedValueStep ==
    (AtEndOfTokens /\ mode = "expecting_value")
    => /\ pc' = "raised"
       /\ error'.kind = "EmptyValueError"
       /\ tokens[Len(tokens)] = <<":">> /\ specials[Len(tokens)]
       /\ error'.index = indices[Len(tokens)] + 1
       /\ error'.index \in 1..Len(match_string)
       /\ match_string[error'.index] = ":"

\* That offset is the length of the expression when the colon is its last
\* character, as in a: .
UnterminatedValueText ==
    (pc = "raised" /\ error.line = 679 /\ match_string[Len(match_string)] = ":")
    => error.index = Len(match_string)

\* C11, amended: when the tokens end in expecting_value, parse() raises
\* EmptyValueError at the offset of the last colon plus one, which is the
\* length of the expression when that colon is its last character.
C11_UnterminatedValue == []UnterminatedValueText /\ [][UnterminatedValueStep]_vars

\* parse() has raised EmptyValueError at the end of an expression key: .
C11_Witness ==
    /\ pc = "raised"
    /\ error.line = 679
    /\ error.kind = "EmptyValueError"
    /\ Len(match_string) >= 2
    /\ IsWord(SubSeq(match_string, 1, Len(match_string) - 1))
    /\ match_string[Len(match_string)] = ":"
    /\ error.index = Len(match_string)


\* key:[v1,...,vn,] with n >= 1 and ordinary words, read off the text.
IsDanglingList(s) ==
    /\ ListColon(s) # 0
    /\ Len(ListBody(s)) >= 2
    /\ ListBody(s)[Len(ListBody(s))] = ","
    /\ AllWords(SplitOn(SubSeq(ListBody(s), 1, Len(ListBody(s)) - 1), ","))

DanglingListText ==
    (Finished /\ IsDanglingList(match_string))
    => /\ pc = "raised"
       /\ error.kind = "EmptyValueError"
       /\ error.index = Len(match_string) - 1

\* A closing bracket where a list value is expected, after at least one value.
DanglingListStep ==
    (/\ HasNextToken
     /\ mode = "expecting_list_value"
     /\ special /\ token = <<"]">>
     /\ current_value_list # <<>>)
    => /\ pc' = "raised"
       /\ error'.kind = "EmptyValueError"
       /\ error'.index = tokidx
       /\ match_string[tokidx + 1] = "]"

\* C12 (dangling list comma): key:[v1,...,vn,] with n >= 1 raises
\* EmptyValueError, not EmptyListError, at the closing bracket, and no map
\* is returned.
C12_DanglingListComma == []DanglingListText /\ [][DanglingListStep]_vars

\* parse() has raised at the closing bracket of a list of two values and a
\* dangling comma.
C12_Witness ==
    /\ pc = "raised"
    /\ IsDanglingList(match_string)
    /\ Len(current_value_list) = 2
    /\ error.kind = "EmptyValueError"


\* Position of the last c in s, 0 if there is none.
LastPos(s, c) ==
    IF \E i \in DOMAIN s : s[i] = c
    THEN CHOOSE i \in DOMAIN s : s[i] = c /\ \A j \in (i + 1)..Len(s) : s[j] # c
    ELSE 0

Timestamp ==
    <<"i", "d", ":", "[", "0", "0", "1", ",", "0", "0", "2", "]", ",",
      "c", "a", "m", "e", "r", "a", ":", "S", "V", ",",
      "t", "i", "m", "e", "s", "t", "a", "m", "p">>

\* Read off the text: an expression of the grammar followed by a comma and
\* nothing, or by a comma and a bare key.
DanglingTailText ==
    LET k == LastPos(match_string, ",")
    IN  (Finished /\ k > 1 /\ RefParse(SubSeq(match_string, 1, k - 1)).ok)
        => /\ From(match_string, k + 1) = <<>>
              => (pc = "raised" /\ error.kind = "EmptyKeyError")
           /\ IsWord(From(match_string, k + 1))
              => (pc = "raised" /\ error.kind = "IncompleteKeyValuePairError")

\* A non-empty token sequence that ends in expecting_key or expecting_colon.
DanglingTailStep ==
    /\ (AtEndOfTokens /\ tokens # <<>> /\ mode = "expecting_key")
       => (pc' = "raised" /\ error'.kind = "EmptyKeyError")
    /\ (AtEndOfTokens /\ tokens # <<>> /\ mode = "expecting_colon")
       => (pc' = "raised" /\ error'.kind = "IncompleteKeyValuePairError")

\* C13: a dangling tail is never silently dropped: a non-empty token
\* sequence that ends in expecting_key raises EmptyKeyError, one that ends in
\* expecting_colon (a bare key, as in id:[001,002],camera:SV,timestamp)
\* raises IncompleteKeyValuePairError, and no map is returned.
C13_DanglingTail == []DanglingTailText /\ [][DanglingTailStep]_vars

\* parse() has raised on the bare key timestamp, after merging two pairs.
C13_Witness ==
    /\ pc = "raised"
    /\ match_string = Timestamp
    /\ error.kind = "IncompleteKeyValuePairError"
    /\ Len(out) = 2
    /\ current_key # None


\* C14 as stated: wherever a key position is reached with no key text, at a
\* trailing comma before the end of input (line 683) as well as at a
\* separator that follows the comma of a completed pair (line 621), the
\* error is EmptyKeyError.
C14_EmptyKeyWhereNoKey ==
    (pc = "raised" /\ consumed > 1 /\ error.line \in {621, 683})
    => error.kind = "EmptyKeyError"

\* A special token where a key is expected raises IncompleteKeyValuePairError
\* at the token; the end of a non-empty token sequence where a key is
\* expected raises EmptyKeyError.
NoKeyStep ==
    /\ (HasNextToken /\ mode = "expecting_key" /\ special)
       => /\ pc' = "raised"
          /\ error'.kind = "IncompleteKeyValuePairError"
          /\ error'.index = tokidx
          /\ <<match_string[tokidx + 1]>> = token
    /\ (AtEndOfTokens /\ tokens # <<>> /\ mode = "expecting_key")
       => /\ pc' = "raised"
          /\ error'.kind = "EmptyKeyError"

\* EmptyKeyError is raised nowhere else: only after a trailing comma.
EmptyKeyOnlyAtEnd ==
    error.kind = "EmptyKeyError"
    => /\ error.line = 683
       /\ consumed = Len(tokens)
       /\ tokens[Len(tokens)] = <<",">> /\ specials[Len(tokens)]

TwoSeparatorsExample ==
    (Finished /\ match_string = <<"a", ":", "1", ",", ",", "b", ":", "2">>)
    => /\ pc = "raised"
       /\ error.kind = "IncompleteKeyValuePairError"
       /\ error.index = 4

\* C14, amended: EmptyKeyError is raised exactly when a non-empty token
\* sequence ends where a key is expected (a trailing comma before the end of
\* input); a special token met where a key is expected, as the second comma
\* of a:1,,b:2, raises IncompleteKeyValuePairError at that token's offset.
C14_NoKeyErrors ==
    [](EmptyKeyOnlyAtEnd /\ TwoSeparatorsExample) /\ [][NoKeyStep]_vars

\* parse() has raised at the second comma of a:1,,b:2.
C14_Witness ==
    /\ pc = "raised"
    /\ match_string = <<"a", ":", "1", ",", ",", "b", ":", "2">>
    /\ error.line = 621
    /\ error.index = 4


\* The error the transition table of the grammar gives for token t (special
\* iff sp) met in mode m with the values vl pending; "none" if t is accepted.
TableError(m, t, sp, vl) ==
    CASE m = "expecting_key" ->
            IF sp THEN "IncompleteKeyValuePairError" ELSE "none"
      [] m = "expecting_colon" ->
            IF sp /\ t = <<":">> THEN "none" ELSE "MissingColonError"
      [] m = "expecting_value" ->
            IF sp /\ t # <<"[">> THEN "UnexpectedSpecialCharacterError" ELSE "none"
      [] m = "expecting_list_value" ->
            IF sp /\ t = <<":">> THEN "UnexpectedSpecialCharacterError"
            ELSE IF sp /\ t = <<"]">>
                 THEN (IF vl = <<>> THEN "EmptyListError" ELSE "EmptyValueError")
                 ELSE "none"
      [] m = "expecting_list_comma" ->
            IF sp /\ t \in {<<"]">>, <<",">>} THEN "none" ELSE "OnlyCommaValidError"
      [] m = "expecting_key_comma" ->
            IF sp /\ t = <<",">> THEN "none" ELSE "OnlyCommaValidError"

Offending == TableError(mode, token, special, current_value_list) # "none"

FailFastStep ==
    \* nothing happens once an error has been raised
    /\ error = NoError
    \* the first token the grammar rejects raises, with the error of that
    \* violation, at that token
    /\ (HasNextToken /\ Offending)
       => /\ pc' = "raised"
          /\ error'.kind = TableError(mode, token, special, current_value_list)
          /\ error'.index = tokidx
          /\ consumed' = consumed + 1
    \* a token the grammar accepts raises nothing
    /\ (HasNextToken /\ ~Offending)
       => /\ pc' = "create"
          /\ error' = NoError
    \* a map is returned only after every token was consumed without error
    /\ pc' = "returned"
       => /\ consumed = Len(tokens)
          /\ error' = NoError

\* Once raised, the error stands and no map is returned.
RaisedIsFinal == (error # NoError) <=> (pc = "raised")

----------------------------------------------------------------------------
(* C16: parsing the same expression twice, on a new object or on the same  *)
(* object, gives the same outcome (equal maps, or the same error kind and  *)
(* offset), and the later call leaves the map of the first as it was.      *)

SameOutcome == (Finished /\ calls >= 1) => Outcome = first

FirstMapIntact == (calls >= 1 /\ first.pc = "returned") => held = first.out

C16_Idempotent == SameOutcome /\ FirstMapIntact

C16_Witness ==
    /\ calls = 1
    /\ pc = "returned"
    /\ out # <<>>
    /\ out[1].values # <<>>
    /\ Outcome = first
    /\ held = first.out
    /\ ~aliased

----------------------------------------------------------------------------
(* C17: the jobcount that metadata_parser returns is the number of entries *)
(* of the meta dictionary it returns (one entry per image to process).     *)

C17_JobcountIsMetaSize == (mp_pc = "returned") => (jobcount = Len(meta))

----------------------------------------------------------------------------
\* key:[body with no closing bracket: the position of the colon, 0 if the
\* expression has not that shape.
OpenListColon(s) ==
    LET i == FirstPos(s, ":")
    IN  IF /\ i > 1
           /\ Len(s) >= i + 1
           /\ s[i + 1] = "["
           /\ IsWord(SubSeq(s, 1, i - 1))
           /\ \A j \in DOMAIN s : s[j] # "]"
        THEN i ELSE 0

OpenListKey(s) == SubSeq(s, 1, OpenListColon(s) - 1)
OpenListBody(s) == From(s, OpenListColon(s) + 2)

\* The values v1,...,vn written in the body v1,...,vn or v1,...,vn, of an
\* open list (n >= 0).
OpenListValues(body) ==
    IF body = <<>> THEN <<>>
    ELSE IF body[Len(body)] = "," THEN SplitOn(SubSeq(body, 1, Len(body) - 1), ",")
    ELSE SplitOn(body, ",")

\* Read off the text: key:[v1,...,vn and key:[v1,...,vn, return the map
\* that key:[v1,...,vn] returns.
UnterminatedListText ==
    (/\ Finished
     /\ OpenListColon(match_string) # 0
     /\ AllWords(OpenListValues(OpenListBody(match_string))))
    => /\ pc = "returned"
       /\ error = NoError
       /\ out = OneEntry(OpenListKey(match_string),
                         OpenListValues(OpenListBody(match_string)))

\* The values bound to k in o, none if k is not a key of o.
ValuesIn(o, k) == IF HasKey(o, k) THEN Lookup(o, k) ELSE <<>>

\* The tokens end inside a list: parse() returns, the key of the list is
\* bound to its earlier values followed by the values collected in the list,
\* and every other key keeps its values.
UnterminatedListStep ==
    (AtEndOfTokens /\ mode \in {"expecting_list_value", "expecting_list_comma"})
    => /\ pc' = "returned"
       /\ error' = NoError
       /\ current_key # None
       /\ HasKey(out', current_key[1])
       /\ Lookup(out', current_key[1])
              = ValuesIn(out, current_key[1]) \o current_value_list
       /\ \A i \in DOMAIN out : out[i].key # current_key[1] => out'[i] = out[i]
       /\ Len(out') = IF HasKey(out, current_key[1]) THEN Len(out) ELSE Len(out) + 1

\* C18 (unterminated list): when the tokens end in expecting_list_value or
\* expecting_list_comma (key:[1,2 with no closing bracket), parse() raises
\* nothing and returns a map that binds the key to the values collected so
\* far, as the closed list would.
C18_UnterminatedList == []UnterminatedListText /\ [][UnterminatedListStep]_vars

\* parse() has returned on a list of two values that no bracket closes.
C18_Witness ==
    /\ pc = "returned"
    /\ OpenListColon(match_string) # 0
    /\ mode = "expecting_list_comma"
    /\ Len(out) = 1
    /\ Len(out[1].values) = 2
    /\ out[1].values = SplitOn(OpenListBody(match_string), ",")

----------------------------------------------------------------------------
\* The text of some token that is not special.
IsPlainTokenText(v) == \E t \in DOMAIN tokens : ~specials[t] /\ tokens[t] = v

\* C19 (only plain tokens become values): every value of a returned map is
\* the text of a token that is not special, never a bare special character
\* such as "," or "[" met outside quotes and escapes.
C19_OnlyPlainValues ==
    (pc = "returned")
    => \A i \in DOMAIN out : \A j \in DOMAIN out[i].values :
           IsPlainTokenText(out[i].values[j])

----------------------------------------------------------------------------
\* A special colon where a list value is expected.
ColonInListStep ==
    (/\ HasNextToken
     /\ mode = "expecting_list_value"
     /\ special /\ token = <<":">>)
    => /\ pc' = "raised"
       /\ error'.kind = "UnexpectedSpecialCharacterError"
       /\ error'.index = tokidx
       /\ match_string[tokidx + 1] = ":"

\* Read off the text: key:[: and whatever follows raises at the second colon.
ColonInListText ==
    LET i == FirstPos(match_string, ":")
    IN  (/\ Finished
         /\ i > 1
         /\ IsWord(SubSeq(match_string, 1, i - 1))
         /\ Len(match_string) >= i + 2
         /\ match_string[i + 1] = "["
         /\ match_string[i + 2] = ":")
        => /\ pc = "raised"
           /\ error.kind = "UnexpectedSpecialCharacterError"
           /\ error.index = i + 1

NeverKeyValuePairInList == error.kind # "KeyValuePairInListError"

\* C20: a special ":" met while a list value is expected (camera:[:])
\* raises UnexpectedSpecialCharacterError at the offset of that colon;
\* KeyValuePairInListError is never raised, whatever the input.
C20_ColonInList ==
    [](ColonInListText /\ NeverKeyValuePairInList) /\ [][ColonInListStep]_vars

\* parse() has raised on camera:[:] at the colon inside the list.
C20_Witness ==
    /\ pc = "raised"
    /\ match_string = <<"c", "a", "m", "e", "r", "a", ":", "[", ":", "]">>
    /\ mode = "expecting_list_value"
    /\ error.kind = "UnexpectedSpecialCharacterError"
    /\ error.index = 8

----------------------------------------------------------------------------
\* After a completed pair: the special "," leads to expecting_key, any other
\* token raises OnlyCommaValidError at its position.
KeyCommaStep ==
    (HasNextToken /\ mode = "expecting_key_comma")
    => IF special /\ token = <<",">>
       THEN /\ pc' = "create"
            /\ mode' = "expecting_key"
            /\ error' = NoError
            /\ UNCHANGED <<out, current_key, current_value_list>>
       ELSE /\ pc' = "raised"
            /\ error'.kind = "OnlyCommaValidError"
            /\ error'.index = tokidx

\* After a list value: the special "," leads to expecting_list_value, the
\* special "]" merges the pair and leads to expecting_key_comma, any other
\* token raises OnlyCommaValidError at its position.
ListCommaStep ==
    (HasNextToken /\ mode = "expecting_list_comma")
    => IF special /\ token = <<",">>
       THEN /\ pc' = "create"
            /\ mode' = "expecting_list_value"
            /\ error' = NoError
            /\ UNCHANGED <<out, current_key, current_value_list>>
       ELSE IF special /\ token = <<"]">>
       THEN /\ pc' = "create"
            /\ mode' = "expecting_key_comma"
            /\ error' = NoError
            /\ current_key # None
            /\ HasKey(out', current_key[1])
            /\ Lookup(out', current_key[1])
                   = ValuesIn(out, current_key[1]) \o current_value_list
            /\ \A i \in DOMAIN out : out[i].key # current_key[1] => out'[i] = out[i]
       ELSE /\ pc' = "raised"
            /\ error'.kind = "OnlyCommaValidError"
            /\ error'.index = tokidx

\* Read off the text: key:value or key:[value followed by a special
\* character that is not valid there (the examples camera:id: and
\* camera:[1:2] of lines 668 and 673).
OnlyCommaText ==
    LET i == FirstPos(match_string, ":")
        rest == From(match_string, i + 1)
        inlist == rest # <<>> /\ rest[1] = "["
        body == IF inlist THEN Tail(rest) ELSE rest
        valid == IF inlist THEN {",", "]"} ELSE {","}
    IN  \A k \in DOMAIN body :
            (/\ Finished
             /\ i > 1
             /\ IsWord(SubSeq(match_string, 1, i - 1))
             /\ IsWord(SubSeq(body, 1, k - 1))
             /\ body[k] \in special_characters \ valid)
            => /\ pc = "raised"
               /\ error.kind = "OnlyCommaValidError"
               /\ error.index = Len(match_string) - Len(body) + k - 1

\* C21: in expecting_key_comma any token other than the special "," raises
\* OnlyCommaValidError, and in expecting_list_comma any token other than the
\* special "," or "]" does; the special "," leads to expecting_key,
\* respectively expecting_list_value, and "]" merges the pair and leads to
\* expecting_key_comma.
C21_OnlyCommaValid == []OnlyCommaText /\ [][KeyCommaStep /\ ListCommaStep]_vars

\* parse() has raised on a token that follows a list value and is neither
\* the comma nor the closing bracket.
C21_Witness ==
    /\ pc = "raised"
    /\ mode = "expecting_list_comma"
    /\ error.kind = "OnlyCommaValidError"
    /\ current_value_list = << <<"b">> >>
    /\ match_string[error.index + 1] = ":"

----------------------------------------------------------------------------
\* Between two pairs nothing is pending.
AccumulatorCleared ==
    (pc \in {"create", "returned", "raised"}
     /\ mode \in {"expecting_key_comma", "expecting_key"})
    => /\ current_key = None
       /\ current_value_list = <<>>

\* The values the next merge stores: the pending ones, with the single
\* value that is being read when the merge is that of key:value.
Pending ==
    IF mode = "expecting_value"
    THEN Append(current_value_list, token)
    ELSE current_value_list

\* The lists of the map change by a merge only: the step that merges binds
\* the pending key to its earlier values followed by the pending values,
\* clears the accumulator and leaves the list of every other key as it is;
\* no other step of _create_dictionary changes the map.
NoLeakStep ==
    (pc = "create")
    => IF out' # out
       THEN /\ current_key # None
            /\ Lookup(out', current_key[1])
                   = ValuesIn(out, current_key[1]) \o Pending
            /\ \A i \in DOMAIN out : out[i].key # current_key[1] => out'[i] = out[i]
            /\ current_key' = None
            /\ current_value_list' = <<>>
       ELSE TRUE

\* Values are pending only inside a list, under a pending key.
PendingOnlyInList ==
    (pc = "create" /\ current_value_list # <<>>)
    => /\ mode \in {"expecting_list_value", "expecting_list_comma"}
       /\ current_key # None

\* C22: every merge clears the pending key and the pending values: in
\* expecting_key_comma and in expecting_key current_key is None and
\* current_value_list is empty, and the values of one key never reach the
\* list of another key.
C22_AccumulatorCleared ==
    [](AccumulatorCleared /\ PendingOnlyInList) /\ [][NoLeakStep]_vars

\* A second pair with another key has been merged: each key has its own value.
C22_Witness ==
    /\ pc = "create"
    /\ mode = "expecting_key_comma"
    /\ Len(out) = 2
    /\ out[1].values = << <<"a">> >>
    /\ out[2].values = << <<"b">> >>
    /\ current_key = None
    /\ current_value_list = <<>>

----------------------------------------------------------------------------
\* The character read is a quote symbol with its meaning: not escaped.
AtQuoteSymbol == HasNextChar /\ ~escaped /\ Char \in QuoteSet

\* A quote symbol that is open: the stack is cut below the most recent
\* occurrence of the symbol, and the symbol is appended to the pending text
\* unless that occurrence was the bottom of the stack.
QuoteCloseStep ==
    (AtQuoteSymbol /\ InSeq(Char, active_quotes))
    => LET p == LastPos(active_quotes, Char)
       IN  /\ active_quotes' = SubSeq(active_quotes, 1, p - 1)
           /\ current_item' = IF p = 1 THEN current_item
                              ELSE current_item \o <<Char>>
           /\ UNCHANGED <<tokens, specials, indices, escaped>>
           /\ pc' = "tokenize"

\* A quote symbol that is not open is pushed and not appended.
QuoteOpenStep ==
    (AtQuoteSymbol /\ ~InSeq(Char, active_quotes))
    => /\ active_quotes' = Append(active_quotes, Char)
       /\ UNCHANGED <<current_item, tokens, specials, indices, escaped>>
       /\ pc' = "tokenize"

\* "'' gives the single token ': the inner quote is opened, then closed
\* and appended. '"'a gives the single token a: closing the outer quote
\* discards the level nested in it.
QuoteExamples ==
    /\ (Finished /\ match_string = <<DQUOTE, SQUOTE, SQUOTE>>)
       => (tokens = << <<SQUOTE>> >> /\ active_quotes = <<DQUOTE>>)
    /\ (Finished /\ match_string = <<SQUOTE, DQUOTE, SQUOTE, "a">>)
       => (tokens = << <<"a">> >> /\ active_quotes = <<>>)

\* C23 (quote closing): a quote symbol that is open cuts the quote stack to
\* the entries below it; it is appended to the pending text unless it was the
\* bottom entry; a quote symbol that is not open is pushed and not appended.
C23_QuoteClosing == []QuoteExamples /\ [][QuoteCloseStep /\ QuoteOpenStep]_vars

\* An inner quote has been closed and appended while the outer one is open.
C23_Witness ==
    /\ pc = "tokenize"
    /\ match_string = <<DQUOTE, SQUOTE, SQUOTE>>
    /\ idx = 2
    /\ active_quotes = <<DQUOTE>>
    /\ current_item = <<SQUOTE>>

----------------------------------------------------------------------------
\* C24: at every step the quote stack holds no symbol twice, so it is at
\* most two deep, and the first occurrence of a symbol in it (the one that
\* active_quotes.index finds) is its most recent occurrence.
C24_NoSymbolTwice ==
    /\ \A i, j \in DOMAIN active_quotes : i # j => active_quotes[i] # active_quotes[j]
    /\ Len(active_quotes) <= 2
    /\ \A c \in QuoteSet :
           InSeq(c, active_quotes)
           => QuoteIndex(active_quotes, c) + 1 = LastPos(active_quotes, c)

\* Both quote symbols are open, and a quote symbol is read next.
C24_Witness ==
    /\ Len(active_quotes) = 2
    /\ AtQuoteSymbol

----------------------------------------------------------------------------
\* No token is empty, a special token is one special character, and a token
\* that is not special is followed by a special one or by nothing.
TokensWellFormed ==
    /\ \A t \in DOMAIN tokens : tokens[t] # <<>>
    /\ \A t \in DOMAIN tokens :
           specials[t] => (Len(tokens[t]) = 1 /\ tokens[t][1] \in special_characters)
    /\ \A t \in 1..(Len(tokens) - 1) : ~specials[t] => specials[t + 1]

\* The token met in expecting_colon or in expecting_list_comma is special.
NoPlainWhereSeparator ==
    (HasNextToken /\ mode \in {"expecting_colon", "expecting_list_comma"}) => special

\* C25 (token well-formedness): no token has empty text, every special
\* token is exactly one of the characters : [ ] , and no two plain tokens
\* are adjacent, so that the parser never meets a plain token in
\* expecting_colon or in expecting_list_comma.
C25_WellFormedTokens == TokensWellFormed /\ NoPlainWhereSeparator

----------------------------------------------------------------------------
\* C26: whenever parse() fails, the failure is one of the eight kinds of
\* ShowSourceOfError and its offset lies in 0..len(match_string), so that
\* the caret is drawn under or right after the text of the expression.
C26_ErrorsShowTheirSource ==
    (pc = "raised")
    => /\ error.kind \in ShowSourceOfErrorKinds
       /\ error.index \in 0..Len(match_string)

====
